---- MODULE Spec2Model ----
(***************************************************************************)
(* Numeric core of com_lz_orbital_simulation.py: the attractor radius, the *)
(* resonance potential, the drift right-hand side and the per-particle     *)
(* simulation loop.                                                        *)
(*                                                                         *)
(* Python floats are modelled as binary floating-point numbers             *)
(* [m |-> mantissa, e |-> exponent] of value m * 2^e with a signed         *)
(* mantissa of MantBits bits, every operation rounded to nearest, ties to  *)
(* even, as IEEE-754 does.  The significand is narrower than binary64's 53 *)
(* bits (TLC's integers are 32 bits wide); the exponent is unbounded, so   *)
(* there is no overflow, infinity or NaN.                                  *)
(***************************************************************************)
EXTENDS Integers, Sequences, FiniteSets

\* pc: the statement the running function is at; frame: its arguments and
\* locals; ret: what it returned; warnings: the particles whose odeint call
\* issued an ODEintWarning; lsoda: for each initial radius of the run, the
\* grid index at which the integrator stops converging (0: it converges).
VARIABLES pc, frame, ret, warnings, lsoda

vars == <<pc, frame, ret, warnings, lsoda>>

\* Significand width of the modelled floats.
MantBits == 24

----------------------------------------------------------------------------
\* Floating-point arithmetic

Sgn(x) == IF x < 0 THEN -1 ELSE 1

Mag(x) == IF x < 0 THEN -x ELSE x

\* Number of bits of the natural number x < 2^30.
BitLen(x) == CHOOSE k \in 0..30 : x < 2^k /\ (k = 0 \/ x >= 2^(k - 1))

Zero == [m |-> 0, e |-> 0]

\* 1 when the dropped bits rem (of weight 2 * half), followed by a nonzero
\* tail iff sticky, round the kept bits q upwards: above one half, or one
\* half exactly and q odd.
RoundUp(q, rem, half, sticky) ==
    IF rem > half \/ (rem = half /\ (sticky \/ q % 2 = 1)) THEN 1 ELSE 0

\* The rounded mantissa q1 <= 2^MantBits with exponent e, renormalised.
fl_carry(sgn, q1, e) ==
    IF q1 = 2^MantBits THEN [m |-> sgn * 2^(MantBits - 1), e |-> e + 1]
    ELSE [m |-> sgn * q1, e |-> e]

\* fl_round for M of MantBits + sh bits.
fl_round_to(sgn, M, e, sticky, sh) ==
    IF sh <= 0 THEN [m |-> sgn * M * 2^(0 - sh), e |-> e + sh]
    ELSE fl_carry(sgn, (M \div 2^sh) + RoundUp(M \div 2^sh, M % 2^sh, 2^(sh - 1), sticky),
                  e + sh)

\* The float nearest to sgn * (M + f) * 2^e, where 0 <= f < 1 and f > 0 iff
\* sticky; ties go to the even mantissa.
fl_round(sgn, M, e, sticky) ==
    IF M = 0 THEN Zero ELSE fl_round_to(sgn, M, e, sticky, BitLen(M) - MantBits)

fl_neg(a) == [m |-> -a.m, e |-> a.e]

fl_abs(a) == [m |-> Mag(a.m), e |-> a.e]

\* hi + lo for operands of opposite signs: D is the difference of the aligned
\* magnitudes, less one when bits of lo were shifted out (st).
fl_add_diff(hi, lo, D, st) ==
    IF D = 0 THEN Zero
    ELSE fl_round(IF D > 0 THEN Sgn(hi.m) ELSE Sgn(lo.m), Mag(D), hi.e - 3, D > 0 /\ st)

\* hi + lo from the aligned magnitudes A of hi and B of lo.
fl_add_parts(hi, lo, A, B, st) ==
    IF Sgn(hi.m) = Sgn(lo.m) THEN fl_round(Sgn(hi.m), A + B, hi.e - 3, st)
    ELSE fl_add_diff(hi, lo, A - B - (IF st THEN 1 ELSE 0), st)

\* hi + lo, hi.e >= lo.e: lo is aligned d bits down with three guard bits and
\* a sticky flag.
fl_add_aligned(hi, lo, d) ==
    fl_add_parts(hi, lo, Mag(hi.m) * 8,
                 IF d >= 30 THEN 0 ELSE (Mag(lo.m) * 8) \div 2^d,
                 IF d >= 30 THEN TRUE ELSE (Mag(lo.m) * 8) % 2^d # 0)

\* a + b.
fl_add(a, b) ==
    IF a.m = 0 THEN b
    ELSE IF b.m = 0 THEN a
    ELSE fl_add_aligned(IF a.e >= b.e THEN a ELSE b, IF a.e >= b.e THEN b ELSE a,
                        Mag(a.e - b.e))

fl_sub(a, b) == fl_add(a, fl_neg(b))

\* Bits of one limb of a mantissa.
HalfBits == (MantBits + 1) \div 2

\* The product high * W^2 + lowr, lowr < W^2, kept with four guard bits and a
\* sticky flag.
fl_mul_round(sgn, e, W, high, lowr) ==
    fl_round(sgn, (high * 16) + (lowr \div ((W * W) \div 16)), e + (2 * HalfBits) - 4,
             lowr % ((W * W) \div 16) # 0)

\* The product hh * W^2 + mid * W + ll of the limbs.
fl_mul_sum(sgn, e, W, hh, mid, ll) ==
    fl_mul_round(sgn, e, W, hh + (mid \div W) + ((((mid % W) * W) + ll) \div (W * W)),
                 (((mid % W) * W) + ll) % (W * W))

\* x * y for mantissas x and y split into limbs of HalfBits bits.
fl_mul_limbs(sgn, x, y, e, W) ==
    fl_mul_sum(sgn, e, W, (x \div W) * (y \div W),
               ((x \div W) * (y % W)) + ((x % W) * (y \div W)), (x % W) * (y % W))

\* a * b: the double-width product of the mantissas is formed in two limbs.
fl_mul(a, b) ==
    IF a.m = 0 \/ b.m = 0 THEN Zero
    ELSE fl_mul_limbs(Sgn(a.m) * Sgn(b.m), Mag(a.m), Mag(b.m), a.e + b.e, 2^HalfBits)

\* Long division: quotient bits of (q + r/den) * 2^e until MantBits + 2 bits.
RECURSIVE DivBits(_, _, _, _)
DivBits(q, r, den, e) ==
    IF q >= 2^(MantBits + 1) THEN <<q, e, r # 0>>
    ELSE IF 2 * r >= den THEN DivBits(2 * q + 1, 2 * r - den, den, e - 1)
    ELSE DivBits(2 * q, 2 * r, den, e - 1)

\* fl_round of the quotient bits t that DivBits returns.
fl_round_bits(sgn, t) == fl_round(sgn, t[1], t[2], t[3])

\* The float nearest to sgn * (num / den) * 2^e, num >= 0, den > 0.
fl_quot(sgn, num, den, e) ==
    IF num = 0 THEN Zero
    ELSE fl_round_bits(sgn, DivBits(num \div den, num % den, den, e))

fl_div(a, b) == fl_quot(Sgn(a.m) * Sgn(b.m), Mag(a.m), Mag(b.m), a.e - b.e)

\* An int converted to float, and a decimal literal num/den.
fl_int(k) == fl_round(Sgn(k), Mag(k), 0, FALSE)

fl_dec(num, den) == fl_quot(1, num, den, 0)

One == fl_int(1)

Two == fl_int(2)

\* The literals 0.1 and 0.01.
Tenth == fl_dec(1, 10)

Hundredth == fl_dec(1, 100)

\* x ** n for an int n (n < 0: the reciprocal of the positive power).
RECURSIVE fl_pow(_, _)
fl_pow(x, n) ==
    IF n = 0 THEN One
    ELSE IF n < 0 THEN fl_div(One, fl_pow(x, -n))
    ELSE fl_mul(fl_pow(x, n - 1), x)

----------------------------------------------------------------------------
\* Constants

LZ == fl_dec(123498288, 100000000)

R_EARTH == 6371

np_pi == fl_dec(314159265, 100000000)

\* The argument octave_factor * 2 * np.pi for octave_factor = k / 9.
SinArg(k) == fl_mul(fl_mul(fl_quot(Sgn(k), Mag(k), 9, 0), Two), np_pi)

\* sin(2 pi k / 9) for k = 0..9 as the float library returns it; sin(2 pi) is
\* the small negative number the rounded argument gives, not 0.
SinTable ==
    <<fl_dec(64278761, 100000000), fl_dec(98480775, 100000000),
      fl_dec(86602540, 100000000), fl_dec(34202014, 100000000),
      fl_neg(fl_dec(34202014, 100000000)), fl_neg(fl_dec(86602540, 100000000)),
      fl_neg(fl_dec(98480775, 100000000)), fl_neg(fl_dec(64278761, 100000000)),
      fl_neg(fl_mul(fl_dec(244929360, 100000000),
                    fl_mul(fl_dec(1, 100000000), fl_dec(1, 100000000))))>>

SinArgs == [k \in 1..9 |-> SinArg(k)]

\* s with its sign flipped when x is negative.
fl_odd(s, x) == IF x.m < 0 THEN fl_neg(s) ELSE s

\* The table entry for the argument whose index is in ks, with the sign of x.
sin_lookup(x, ks) ==
    IF ks = {} THEN Zero ELSE fl_odd(SinTable[CHOOSE k \in ks : TRUE], x)

\* np.sin on the arguments the radius formula produces (odd in its argument).
np_sin(x) == sin_lookup(x, {k \in 1..9 : SinArgs[k] = fl_abs(x)})

----------------------------------------------------------------------------
\* com_lz_attractor_radius

base_radius_of(n) == fl_mul(fl_int(R_EARTH), fl_pow(LZ, n))

\* The remainder with the sign of the dividend, as C's % gives it.
octave_index_truncated(n) ==
    (IF n - 1 >= 0 THEN (n - 1) % 9 ELSE 0 - ((1 - n) % 9)) + 1

\* Python's % takes the sign of the divisor, as TLA+'s does.
octave_index(n) == ((n - 1) % 9) + 1

octave_factor_of(n) == fl_quot(Sgn(octave_index(n)), Mag(octave_index(n)), 9, 0)

\* The adjustment with the sign of the sine term flipped.
harmonic_adjustment_flipped(octave_factor) ==
    fl_sub(One, fl_mul(Tenth, np_sin(fl_mul(fl_mul(octave_factor, Two), np_pi))))

harmonic_adjustment(octave_factor) ==
    fl_add(One, fl_mul(Tenth, np_sin(fl_mul(fl_mul(octave_factor, Two), np_pi))))

com_lz_attractor_radius(n) ==
    fl_mul(base_radius_of(n), harmonic_adjustment(octave_factor_of(n)))

----------------------------------------------------------------------------
\* resonance_potential

\* The attractor radii taken one harmonic step too high.
attractor_radii_shifted(n_vals) ==
    [k \in 1..Len(n_vals) |-> com_lz_attractor_radius(n_vals[k] + 1)]

attractor_radii_of(n_vals) ==
    [k \in 1..Len(n_vals) |-> com_lz_attractor_radius(n_vals[k])]

\* The summand with the squares taken before the difference.
potential_term_squares(r, r_a) ==
    LET dist2 == fl_abs(fl_sub(fl_mul(r, r), fl_mul(r_a, r_a)))
    IN fl_div(One, fl_add(One, fl_mul(Hundredth, dist2)))

\* The summand without the reciprocal.
potential_term_inverted(r, r_a) ==
    LET dist == fl_abs(fl_sub(r, r_a))
    IN fl_add(One, fl_mul(Hundredth, fl_mul(dist, dist)))

\* One summand 1 / (1 + 0.01 * abs(r - r_a)**2).
potential_term(r, r_a) ==
    LET dist == fl_abs(fl_sub(r, r_a))
    IN fl_div(One, fl_add(One, fl_mul(Hundredth, fl_mul(dist, dist))))

\* np.sum of a sequence of floats, left to right.
RECURSIVE np_sum(_)
np_sum(xs) ==
    IF Len(xs) = 0 THEN Zero
    ELSE fl_add(np_sum(SubSeq(xs, 1, Len(xs) - 1)), xs[Len(xs)])

\* resonance_potential for a scalar r.
resonance_potential(r, n_vals) ==
    LET attractor_radii == attractor_radii_of(n_vals)
    IN np_sum([k \in 1..Len(n_vals) |-> potential_term(r, attractor_radii[k])])

\* resonance_potential for an array r: every summand is an array of Len(r)
\* elements and np.sum adds all elements of all summands, row by row.
resonance_potential_array(r, n_vals) ==
    LET attractor_radii == attractor_radii_of(n_vals)
        w == Len(r)
    IN np_sum([q \in 1..(Len(n_vals) * w) |->
                 potential_term(r[((q - 1) % w) + 1], attractor_radii[((q - 1) \div w) + 1])])

----------------------------------------------------------------------------
\* drift_acceleration

\* r is the state array [position, velocity] (r[0], r[1] in the source).
drift_acceleration(r, t, n_vals) ==
    LET dr == One
        pot_plus == resonance_potential_array([c \in 1..Len(r) |-> fl_add(r[c], dr)], n_vals)
        pot_minus == resonance_potential_array([c \in 1..Len(r) |-> fl_sub(r[c], dr)], n_vals)
        gradient == fl_div(fl_sub(pot_plus, pot_minus), fl_mul(Two, dr))
        damping == fl_mul(fl_neg(Tenth), r[2])
    IN <<r[2], fl_add(fl_neg(gradient), damping)>>

----------------------------------------------------------------------------
\* Calls

NoValue == [kind |-> "none"]

Returned(v) == [kind |-> "value", value |-> v]

\* Harmonic steps com_lz_attractor_radius is called with: -NegSteps..MaxStep.
NegSteps == 9

MaxStep == 18

HarmonicSteps == (0 - NegSteps)..MaxStep

\* com_lz_attractor_radius(n), statement by statement.
RadiusInit ==
    /\ pc = "radius_entry"
    /\ frame \in [n : HarmonicSteps, base_radius : {Zero}, octave_factor : {Zero},
                  radius : {Zero}]
    /\ ret = NoValue
    /\ warnings = <<>>
    /\ lsoda = <<>>

RadiusBase ==
    /\ pc = "radius_entry"
    /\ frame' = [frame EXCEPT !.base_radius = base_radius_of(frame.n)]
    /\ pc' = "radius_octave"
    /\ UNCHANGED <<ret, warnings, lsoda>>

RadiusOctave ==
    /\ pc = "radius_octave"
    /\ frame' = [frame EXCEPT !.octave_factor = octave_factor_of(frame.n)]
    /\ pc' = "radius_adjust"
    /\ UNCHANGED <<ret, warnings, lsoda>>

RadiusAdjust ==
    /\ pc = "radius_adjust"
    /\ frame' = [frame EXCEPT !.radius =
                    fl_mul(frame.base_radius, harmonic_adjustment(frame.octave_factor))]
    /\ pc' = "radius_return"
    /\ UNCHANGED <<ret, warnings, lsoda>>

RadiusReturn ==
    /\ pc = "radius_return"
    /\ ret' = Returned(frame.radius)
    /\ pc' = "radius_done"
    /\ UNCHANGED <<frame, warnings, lsoda>>

RadiusNext == RadiusBase \/ RadiusOctave \/ RadiusAdjust \/ RadiusReturn

SpecRadius == RadiusInit /\ [][RadiusNext]_vars

----------------------------------------------------------------------------
\* resonance_potential(r, n_vals) for a scalar r, statement by statement.

\* Attractor index sets: <<n>> and <<n, n + 1>> for n up to MaxAttractor, and
\* the set [3, 5, 7] of generate_all_visualizations.
MaxAttractor == 3

AttractorSets ==
    {<<n>> : n \in 1..MaxAttractor} \cup {<<n, n + 1>> : n \in 1..MaxAttractor}
        \cup {<<3, 5, 7>>}

\* The float after r_a.
NextFloat(a) ==
    IF a.m + 1 = 2^MantBits THEN [m |-> 2^(MantBits - 1), e |-> a.e + 1]
    ELSE [m |-> a.m + 1, e |-> a.e]

\* Offsets from an attractor radius r_a: none, one unit in the last place,
\* and distances up to and beyond the next power of two below r_a.
Offsets(r_a) ==
    {Zero, fl_sub(NextFloat(r_a), r_a), fl_dec(1, 64), One, fl_int(5), fl_int(100),
     fl_add(fl_int(100), fl_dec(1, 64)), fl_int(200),
     fl_add(fl_int(200), fl_dec(1, 2048))}

ProbeRadiiAt(r_a) == UNION {{fl_add(r_a, d), fl_sub(r_a, d)} : d \in Offsets(r_a)}

ProbeRadii(n_vals) ==
    UNION {ProbeRadiiAt(com_lz_attractor_radius(n_vals[k])) : k \in 1..Len(n_vals)}

PotentialInit ==
    /\ pc = "potential_entry"
    /\ \E nv \in AttractorSets :
          frame \in [r : ProbeRadii(nv), n_vals : {nv}, attractor_radii : {<<>>},
                     potential : {Zero}]
    /\ ret = NoValue
    /\ warnings = <<>>
    /\ lsoda = <<>>

PotentialRadii ==
    /\ pc = "potential_entry"
    /\ frame' = [frame EXCEPT !.attractor_radii = attractor_radii_of(frame.n_vals)]
    /\ pc' = "potential_sum"
    /\ UNCHANGED <<ret, warnings, lsoda>>

PotentialSum ==
    /\ pc = "potential_sum"
    /\ frame' = [frame EXCEPT !.potential =
                    np_sum([k \in 1..Len(frame.attractor_radii) |->
                              potential_term(frame.r, frame.attractor_radii[k])])]
    /\ pc' = "potential_return"
    /\ UNCHANGED <<ret, warnings, lsoda>>

PotentialReturn ==
    /\ pc = "potential_return"
    /\ ret' = Returned(frame.potential)
    /\ pc' = "potential_done"
    /\ UNCHANGED <<frame, warnings, lsoda>>

PotentialNext == PotentialRadii \/ PotentialSum \/ PotentialReturn

SpecPotential == PotentialInit /\ [][PotentialNext]_vars

----------------------------------------------------------------------------
\* drift_acceleration(r, t, n_vals), statement by statement.

DriftSets == {<<1>>, <<3, 5, 7>>}

\* States [position, velocity]: positions around the first attractor,
\* velocities at rest, slow, and as large as an attractor radius.
DriftStates(n_vals) ==
    LET r_a == com_lz_attractor_radius(n_vals[1])
    IN {<<fl_add(r_a, d), v>> :
           d \in {fl_int(-20), fl_int(-5), Zero, fl_int(5), fl_int(20)},
           v \in {Zero, fl_dec(1, 2), fl_int(-3), fl_sub(r_a, fl_int(3))}}

DriftInit ==
    /\ pc = "drift_entry"
    /\ \E nv \in DriftSets :
          frame \in [r : DriftStates(nv), t : {Zero, fl_int(7)}, n_vals : {nv},
                     pot_plus : {Zero}, pot_minus : {Zero}, gradient : {Zero},
                     damping : {Zero}]
    /\ ret = NoValue
    /\ warnings = <<>>
    /\ lsoda = <<>>

DriftPotPlus ==
    /\ pc = "drift_entry"
    /\ frame' = [frame EXCEPT !.pot_plus =
           resonance_potential_array([c \in 1..2 |-> fl_add(frame.r[c], One)],
                                     frame.n_vals)]
    /\ pc' = "drift_pot_minus"
    /\ UNCHANGED <<ret, warnings, lsoda>>

DriftPotMinus ==
    /\ pc = "drift_pot_minus"
    /\ frame' = [frame EXCEPT !.pot_minus =
           resonance_potential_array([c \in 1..2 |-> fl_sub(frame.r[c], One)],
                                     frame.n_vals)]
    /\ pc' = "drift_gradient"
    /\ UNCHANGED <<ret, warnings, lsoda>>

DriftGradient ==
    /\ pc = "drift_gradient"
    /\ frame' = [frame EXCEPT !.gradient =
           fl_div(fl_sub(frame.pot_plus, frame.pot_minus), fl_mul(Two, One))]
    /\ pc' = "drift_damping"
    /\ UNCHANGED <<ret, warnings, lsoda>>

DriftDamping ==
    /\ pc = "drift_damping"
    /\ frame' = [frame EXCEPT !.damping = fl_mul(fl_neg(Tenth), frame.r[2])]
    /\ pc' = "drift_return"
    /\ UNCHANGED <<ret, warnings, lsoda>>

DriftReturn ==
    /\ pc = "drift_return"
    /\ ret' = Returned(<<frame.r[2], fl_add(fl_neg(frame.gradient), frame.damping)>>)
    /\ pc' = "drift_done"
    /\ UNCHANGED <<frame, warnings, lsoda>>

DriftNext ==
    DriftPotPlus \/ DriftPotMinus \/ DriftGradient \/ DriftDamping \/ DriftReturn

SpecDrift == DriftInit /\ [][DriftNext]_vars

----------------------------------------------------------------------------
\* simulate_debris_drift

\* np.linspace(0, stop, num) without its closing sample: num samples of
\* step stop / num.
np_linspace_no_endpoint(stop, num) ==
    [q \in 1..num |-> fl_mul(fl_int(q - 1), fl_div(stop, fl_int(num)))]

\* np.linspace(0, stop, num), num >= 1: the samples are arange(num) * step with
\* step = stop / (num - 1), and the last of two or more samples is set to stop.
np_linspace(stop, num) ==
    IF num = 1 THEN <<fl_mul(Zero, stop)>>
    ELSE LET step == fl_div(stop, fl_int(num - 1))
         IN [q \in 1..num |->
                IF q = num THEN stop
                ELSE IF step = Zero
                THEN fl_mul(fl_div(fl_int(q - 1), fl_int(num - 1)), stop)
                ELSE fl_mul(fl_int(q - 1), step)]

\* The initial conditions with position and velocity swapped.
initial_conditions_swapped(r0) == <<Zero, r0>>

\* y0 = [r0, 0].
initial_conditions(r0) == <<r0, Zero>>

\* One row of odeint's solution from the row before it: an explicit Euler
\* step of drift_acceleration over the grid interval dt stands for the
\* integrator's adaptive steps.
odeint_step(y, dt, n_vals) ==
    LET f == drift_acceleration(y, Zero, n_vals)
    IN <<fl_add(y[1], fl_mul(dt, f[1])), fl_add(y[2], fl_mul(dt, f[2]))>>

\* The first len rows of odeint(drift_acceleration, y0, t, args=(n_vals,)):
\* row 1 is y0.
RECURSIVE odeint_rows(_, _, _, _)
odeint_rows(y0, t, n_vals, len) ==
    IF len = 1 THEN <<y0>>
    ELSE LET before == odeint_rows(y0, t, n_vals, len - 1)
         IN Append(before, odeint_step(before[len - 1], fl_sub(t[len], t[len - 1]), n_vals))

\* Particles, grid sizes and inputs of a run.
MaxParticles == 2

MaxPoints == 3

\* Initial radii of generate_all_visualizations.
RadiusInputs ==
    {fl_mul(com_lz_attractor_radius(2), fl_dec(12, 10)),
     fl_mul(com_lz_attractor_radius(4), fl_dec(9, 10))}

RadiusSequences == UNION {[1..k -> RadiusInputs] : k \in 0..MaxParticles}

SimSets == {<<3>>, <<3, 5, 7>>}

TimeSpans == {Zero, fl_int(100)}

\* What a row of the solution holds when the integrator never wrote it.
Garbage == {Zero, fl_dec(69, 10)}

Range(f) == {f[x] : x \in DOMAIN f}

SimInit ==
    /\ pc = "sim_entry"
    /\ frame \in [initial_radii : RadiusSequences, n_vals : SimSets, t_span : TimeSpans,
                  num_points : 1..MaxPoints, t : {<<>>}, results : {<<>>}, i : {0},
                  sol : {<<>>}, j : {0}, df : {<<>>}]
    /\ ret = NoValue
    /\ warnings = <<>>
    /\ lsoda \in [Range(frame.initial_radii) -> {0} \cup 2..frame.num_points]

\* t = np.linspace(0, t_span, num_points); results = [].
CreateTimePoints ==
    /\ pc = "sim_entry"
    /\ frame' = [frame EXCEPT !.t = np_linspace(frame.t_span, frame.num_points),
                              !.results = <<>>, !.i = 0]
    /\ pc' = "sim_loop"
    /\ UNCHANGED <<ret, warnings, lsoda>>

\* The next particle: the integrator converges on the whole grid.
SolveConverged ==
    /\ pc = "sim_loop"
    /\ frame.i < Len(frame.initial_radii)
    /\ LET r0 == frame.initial_radii[frame.i + 1]
       IN /\ lsoda[r0] = 0
          /\ frame' = [frame EXCEPT
                 !.sol = odeint_rows(initial_conditions(r0), frame.t, frame.n_vals,
                                     Len(frame.t)),
                 !.j = 0]
    /\ pc' = "sim_store"
    /\ UNCHANGED <<ret, warnings, lsoda>>

\* The next particle: the integrator stops converging on the way to grid
\* sample lsoda[r0]. odeint warns and returns the solution array all the same:
\* the rows before that sample are integrated, the others hold whatever the
\* array held.
SolveNotConverged ==
    /\ pc = "sim_loop"
    /\ frame.i < Len(frame.initial_radii)
    /\ LET r0 == frame.initial_radii[frame.i + 1]
       IN /\ lsoda[r0] # 0
          /\ \E g \in Garbage :
                frame' = [frame EXCEPT
                    !.sol = odeint_rows(initial_conditions(r0), frame.t, frame.n_vals,
                                        lsoda[r0] - 1)
                            \o [q \in 1..(Len(frame.t) - lsoda[r0] + 1) |-> <<g, g>>],
                    !.j = 0]
    /\ warnings' = Append(warnings, frame.i)
    /\ pc' = "sim_store"
    /\ UNCHANGED <<ret, lsoda>>

\* results.append({...}) for row j, then the next row or the next particle.
StoreRow ==
    /\ pc = "sim_store"
    /\ frame.j < Len(frame.t)
    /\ LET row == [particle |-> frame.i, time |-> frame.t[frame.j + 1],
                   radius |-> frame.sol[frame.j + 1][1],
                   velocity |-> frame.sol[frame.j + 1][2]]
       IN frame' = [frame EXCEPT
              !.results = Append(frame.results, row),
              !.j = frame.j + 1,
              !.i = IF frame.j + 1 = Len(frame.t) THEN frame.i + 1 ELSE frame.i]
    /\ pc' = IF frame.j + 1 = Len(frame.t) THEN "sim_loop" ELSE "sim_store"
    /\ UNCHANGED <<ret, warnings, lsoda>>

\* df = pd.DataFrame(results), after the last particle.
ToDataFrame ==
    /\ pc = "sim_loop"
    /\ frame.i = Len(frame.initial_radii)
    /\ frame' = [frame EXCEPT !.df = frame.results]
    /\ pc' = "sim_return"
    /\ UNCHANGED <<ret, warnings, lsoda>>

SimReturn ==
    /\ pc = "sim_return"
    /\ ret' = Returned(frame.df)
    /\ pc' = "sim_done"
    /\ UNCHANGED <<frame, warnings, lsoda>>

Next ==
    \/ CreateTimePoints
    \/ SolveConverged
    \/ SolveNotConverged
    \/ StoreRow
    \/ ToDataFrame
    \/ SimReturn

Spec == SimInit /\ [][Next]_vars

----------------------------------------------------------------------------
\* a < b and a <= b on floats.
fl_lt(a, b) == fl_sub(a, b).m < 0

fl_le(a, b) == fl_sub(a, b).m <= 0

\* |x - c| <= tol.
Within(x, c, tol) == fl_le(fl_abs(fl_sub(x, c)), tol)

\* a and b agree to a relative error of 2^-(MantBits - 8).
Close(a, b) == fl_le(fl_mul(fl_abs(fl_sub(a, b)), fl_int(2^(MantBits - 8))), fl_abs(a))

\* C6: for every integer n (positive, zero or negative) the octave factor
\* ((n - 1) mod 9 + 1) / 9 lies in (0, 1] and is the same for n and n + 9, so
\* radius(n + 9) is base_radius(n + 9) times the adjustment of radius(n), and
\* equals radius(n) * LZ^9 up to rounding.
C6_OctavePeriod ==
    pc \in {"radius_adjust", "radius_return", "radius_done"} =>
        /\ fl_lt(Zero, frame.octave_factor)
        /\ fl_le(frame.octave_factor, One)
        /\ octave_factor_of(frame.n + 9) = frame.octave_factor
        /\ pc = "radius_done" =>
              /\ com_lz_attractor_radius(frame.n + 9) =
                     fl_mul(base_radius_of(frame.n + 9),
                            harmonic_adjustment(frame.octave_factor))
              /\ Close(com_lz_attractor_radius(frame.n + 9),
                       fl_mul(ret.value, fl_pow(LZ, 9)))

C6_Witness == pc = "radius_done" /\ frame.n < 0 /\ ret.value = frame.radius

\* C7 as stated: radius(1) has octave factor 1/9 and lies within 0.1 km of
\* 8373.1 km.
C7_Original ==
    (pc = "radius_done" /\ frame.n = 1) =>
        /\ frame.octave_factor = fl_quot(1, 1, 9, 0)
        /\ Within(ret.value, fl_dec(83731, 10), Tenth)

\* C7 amended: radius(1) has base 6371 * 1.23498288 = 7868.08 (to 0.01),
\* octave factor 1/9 and lies within 0.1 km of 8373.8 km.
C7_RadiusOne ==
    (pc = "radius_done" /\ frame.n = 1) =>
        /\ Within(frame.base_radius, fl_dec(786808, 100), Hundredth)
        /\ frame.octave_factor = fl_quot(1, 1, 9, 0)
        /\ Within(ret.value, fl_dec(83738, 10), Tenth)

C7_Witness == pc = "radius_done" /\ frame.n = 1 /\ ret.kind = "value"

\* The state in which resonance_potential(frame.r, <<n>>) has returned.
SingleDone == pc = "potential_done" /\ Len(frame.n_vals) = 1

\* C4 as stated: for a single attractor n the potential is exactly 1 at
\* r = radius(n) and strictly less than 1 at every other r.
C4_Original ==
    SingleDone =>
        LET r_a == com_lz_attractor_radius(frame.n_vals[1])
        IN IF frame.r = r_a THEN ret.value = One ELSE fl_lt(ret.value, One)

\* C4 amended: for a single attractor n the potential is exactly 1 at
\* r = radius(n), at most 1 at every r, and strictly less than 1 at every r at
\* least 1 km from radius(n).
C4_MaximumAtAttractor ==
    SingleDone =>
        LET r_a == com_lz_attractor_radius(frame.n_vals[1])
        IN /\ frame.r = r_a => ret.value = One
           /\ fl_le(ret.value, One)
           /\ fl_le(One, fl_abs(fl_sub(frame.r, r_a))) => fl_lt(ret.value, One)

C4_Witness ==
    /\ SingleDone
    /\ frame.r = com_lz_attractor_radius(frame.n_vals[1])
    /\ ret.value = One

NearestDistance(r, n_vals) ==
    LET dists == {fl_abs(fl_sub(r, com_lz_attractor_radius(n_vals[k]))) :
                     k \in 1..Len(n_vals)}
    IN CHOOSE x \in dists : \A y \in dists : fl_le(x, y)

\* The potential does not increase with the distance from the nearest
\* attractor radius: no probed radius at least as far from its nearest
\* attractor as frame.r has a greater potential than frame.r.
DecreasingInNearestDistance ==
    \A r2 \in ProbeRadii(frame.n_vals) :
        fl_le(NearestDistance(frame.r, frame.n_vals),
              NearestDistance(r2, frame.n_vals))
        => fl_le(resonance_potential(r2, frame.n_vals), ret.value)

\* Each summand does not increase with the distance from its own attractor.
SummandsDecreasing ==
    \A k \in 1..Len(frame.n_vals) :
        LET r_a == com_lz_attractor_radius(frame.n_vals[k])
        IN \A r2 \in ProbeRadii(frame.n_vals) :
              fl_le(fl_abs(fl_sub(frame.r, r_a)), fl_abs(fl_sub(r2, r_a)))
              => fl_le(potential_term(r2, r_a), potential_term(frame.r, r_a))

C10_Original ==
    pc = "drift_done" =>
        LET position == frame.r[1]
            velocity == frame.r[2]
            g == fl_div(fl_sub(resonance_potential(fl_add(position, One), frame.n_vals),
                               resonance_potential(fl_sub(position, One), frame.n_vals)),
                        Two)
        IN ret.value = <<velocity, fl_add(fl_neg(g), fl_mul(fl_neg(Tenth), velocity))>>

\* The returned samples of particle i (0-based), n samples per particle.
Trajectory(df, i, n) == SubSeq(df, (i * n) + 1, (i + 1) * n)

\* C1: for initial_radii of length k >= 0 and num_points >= 1 the call returns
\* exactly k trajectories of num_points samples each, in the order of the
\* input; every sample of trajectory i carries particle id i, its times are
\* the time grid element by element and therefore ascend, and its first
\* sample has position initial_radii[i] and velocity 0.
C1_Trajectories ==
    pc = "sim_done" =>
        LET df == ret.value
            k == Len(frame.initial_radii)
            n == frame.num_points
        IN /\ Len(df) = k * n
           /\ Len(frame.t) = n
           /\ \A i \in 0..(k - 1) :
                 LET traj == Trajectory(df, i, n)
                 IN /\ Len(traj) = n
                    /\ \A j \in 1..n : traj[j].particle = i /\ traj[j].time = frame.t[j]
                    /\ \A j \in 1..(n - 1) : fl_le(traj[j].time, traj[j + 1].time)
                    /\ traj[1].radius = frame.initial_radii[i + 1]
                    /\ traj[1].velocity = Zero

C1_Witness ==
    /\ pc = "sim_done"
    /\ Len(frame.initial_radii) = 2
    /\ frame.initial_radii[1] # frame.initial_radii[2]
    /\ frame.num_points >= 3
    /\ frame.t_span = fl_int(100)
    /\ warnings = <<>>
    /\ Len(ret.value) = 2 * frame.num_points
    /\ ret.value[frame.num_points + 1].radius = frame.initial_radii[2]

\* The time grid is built.
GridBuilt == pc # "sim_entry"

\* Consecutive samples of the grid are equally far apart, up to rounding.
UniformlySpaced(t) ==
    \A j \in 1..(Len(t) - 2) :
        Close(fl_sub(t[j + 1], t[j]), fl_sub(t[j + 2], t[j + 1]))

\* C2 as stated: for every time_span and every num_points >= 1, num_points = 1
\* included, the grid has num_points uniformly spaced samples, the first 0 and
\* the last time_span.
C2_Original ==
    GridBuilt =>
        /\ Len(frame.t) = frame.num_points
        /\ UniformlySpaced(frame.t)
        /\ frame.t[1] = Zero
        /\ frame.t[Len(frame.t)] = frame.t_span

\* C2 amended: the grid has num_points uniformly spaced samples and its first
\* sample is 0; its last sample is time_span when num_points >= 2, and for
\* num_points = 1 the grid is the single sample 0 whatever time_span is.
C2_GridEndpoints ==
    GridBuilt =>
        /\ Len(frame.t) = frame.num_points
        /\ UniformlySpaced(frame.t)
        /\ frame.t[1] = Zero
        /\ frame.num_points >= 2 => frame.t[Len(frame.t)] = frame.t_span
        /\ frame.num_points = 1 => frame.t = <<Zero>>

C2_Witness ==
    /\ pc = "sim_loop"
    /\ frame.num_points = 1
    /\ frame.t_span = fl_int(100)
    /\ frame.t = <<Zero>>

\* C3 as stated: when the integrator fails to converge for a particle the
\* call raises, so no result is ever returned by a call in which it failed.
C3_Original == warnings # <<>> => ret = NoValue

\* C9 as stated: the trajectory of a particle depends only on its initial
\* radius, the attractor indices and the time grid, so two particles of one
\* call with the same initial radius have the same samples up to the particle
\* id.
C9_Original ==
    pc = "sim_done" =>
        \A i1, i2 \in 0..(Len(frame.initial_radii) - 1) :
            frame.initial_radii[i1 + 1] = frame.initial_radii[i2 + 1] =>
                \A j \in 1..frame.num_points :
                    LET s1 == Trajectory(ret.value, i1, frame.num_points)[j]
                        s2 == Trajectory(ret.value, i2, frame.num_points)[j]
                    IN /\ s1.time = s2.time
                       /\ s1.radius = s2.radius
                       /\ s1.velocity = s2.velocity

====
